---- MODULE Spec2Model ----
(***************************************************************************)
(* Authorization and tenant scoping of the CRM server.                     *)
(*                                                                         *)
(* State: the relational tables of db/schema.ts (companies, users, roles,  *)
(* user_roles, objects), the passport session of every client, and the     *)
(* last HTTP response.  One action per HTTP endpoint; a request is routed  *)
(* through the Express stack in the order setupAuth and registerRoutes     *)
(* install their layers.                                                   *)
(*                                                                         *)
(* Text values (names, types, search terms) are sequences of characters.   *)
(* The database outlives the server process, so Init ranges over an empty  *)
(* database and a populated one that satisfies the schema's constraints.   *)
(***************************************************************************)
EXTENDS Integers, Sequences, FiniteSets, TLC

\* ---------------------------------------------------------------- bounds
MaxCompanies == 3      \* rows of companies; caps the number of registrations
MaxObjectId  == 1      \* values handed out by the identity of objects.id
MaxUserRoles == 3      \* rows of user_roles

\* ---------------------------------------------------------------- inputs
Sessions     == {"s1", "s2"}
Usernames    == {"alice", "bob", "carol", "dave"}
Passwords    == {"pw1", "pw2"}     \* passwords tried at login
NewPasswords == {"pw2"}            \* passwords chosen at registration
Salts        == {"salt1"}
CompanyNames == {"Acme", "Gamma"}  \* the name of an existing company and a new one

\* An optional value (undefined in a request body, NULL in a column) is a
\* sequence of at most one element; an absent id is 0.
Null      == <<>>
Some(x)   == <<x>>
IsNull(v) == v = <<>>

ObjNames     == { <<"a", "b">>, <<"B">> }
TypeLead     == <<"L", "e", "a", "d">>
TypeBot      == <<"b", "o", "t">>
ObjTypes     == { TypeLead, TypeBot }
Descriptions == { Null, Some(<<"b", "a">>) }
SearchTerms  == { <<"a">>, <<"b">> }

Flags        == {"all", "create", "read", "update", "delete", "manageUsers"}

VARIABLES companies, users, roles, userRoles, objects, nextObjectId,
          session, resp, reg

vars == <<companies, users, roles, userRoles, objects, nextObjectId,
          session, resp, reg>>

tables == <<companies, users, roles, userRoles, objects, nextObjectId>>

\* a client with no request in flight
Idle == [pc |-> "idle", username |-> "", password |-> "", salt |-> "",
         companyName |-> "", company |-> 0, adminRole |-> 0, userRole |-> 0,
         newUser |-> 0, roleToAssign |-> 0]

\* ------------------------------------------------------- credential store
\* scrypt(password, salt, 64): a one-way function, modelled as injective.
scrypt(password, salt) == <<"scrypt", password, salt>>

\* crypto.hash: `${buf.toString("hex")}.${salt}`
hash(password, salt) == <<scrypt(password, salt), salt>>

\* crypto.compare: split the stored value at ".", recompute, timingSafeEqual
compare(suppliedPassword, storedPassword) ==
    LET hashedPassword == storedPassword[1]
        salt           == storedPassword[2]
    IN  hashedPassword = scrypt(suppliedPassword, salt)

\* ------------------------------------------------------------ role lookup
\* getUserRoles: user_roles inner join roles on roleId, where userId = userId
getUserRoles(userId) ==
    { r \in roles : [userId |-> userId, roleId |-> r.id] \in userRoles }

\* req.isAuthenticated(): the session holds the id of an existing user row
isAuthenticated(s) == \E u \in users : u.id = session[s]

\* passport.deserializeUser: the user row of the id kept in the session
deserializeUser(s) == CHOOSE u \in users : u.id = session[s]

\* req.user.id, 0 without a user
CallerId(s) == IF isAuthenticated(s) THEN deserializeUser(s).id ELSE 0

\* req.user.companyId, 0 without a user
CallerCompany(s) == IF isAuthenticated(s) THEN deserializeUser(s).companyId ELSE 0

\* req.user.roles kept from the time the database was filled: the roles a
\* session would hold that stored them at a login before any assignment
CallerRoles_Stored(s) ==
    IF isAuthenticated(s)
    THEN { r \in getUserRoles(deserializeUser(s).id) :
             [userId |-> deserializeUser(s).id, roleId |-> r.id]
                \in { [userId |-> 1, roleId |-> 1], [userId |-> 3, roleId |-> 3] } }
    ELSE {}

\* req.user.roles, re-read on every request
CallerRoles(s) ==
    IF isAuthenticated(s) THEN getUserRoles(deserializeUser(s).id) ELSE {}

\* identity columns: companies, users and roles are never deleted
NextId(table) == Cardinality(table) + 1

\* ------------------------------------------------------------ role rows
AdminPermissions == {"all", "create", "read", "update", "delete", "manageUsers"}
UserPermissions_NoDelete == {"create", "read", "update"}

UserPermissions  == {"create", "read", "update", "delete"}

\* ensureRoleExists that writes the permissions it is called with to the row
\* it finds
ensureRoleExists_Overwrite(rs, name, permissions) ==
    IF \E r \in rs : r.name = name
    THEN { IF r.name = name THEN [r EXCEPT !.permissions = permissions] ELSE r :
             r \in rs }
    ELSE rs \cup {[id |-> NextId(rs), name |-> name, permissions |-> permissions]}

\* ensureRoleExists: the roles table after get-or-create by name
ensureRoleExists(rs, name, permissions) ==
    IF \E r \in rs : r.name = name
    THEN rs
    ELSE rs \cup {[id |-> NextId(rs), name |-> name, permissions |-> permissions]}

RoleByName(rs, name) == CHOOSE r \in rs : r.name = name

\* ------------------------------------------------------------ responses
Response(ep, handler, s, status, id, rows) ==
    [ep |-> ep, handler |-> handler, sess |-> s, user |-> CallerId(s),
     status |-> status, id |-> id, rows |-> rows]

\* ------------------------------------------------------------ routing
\* The Express stack in installation order: setupAuth installs its routes
\* and then the /api/* authentication middleware; registerRoutes installs
\* its routes after setupAuth returns.
Stack ==
    << [name |-> "register",      method |-> "POST",   path |-> "/api/auth/register"],
       [name |-> "login",         method |-> "POST",   path |-> "/api/auth/login"],
       [name |-> "logout",        method |-> "POST",   path |-> "/api/auth/logout"],
       [name |-> "getUser",       method |-> "GET",    path |-> "/api/user"],
       [name |-> "getRoles",      method |-> "GET",    path |-> "/api/roles"],
       [name |-> "assignRole",    method |-> "POST",   path |-> "/api/users/:userId/roles"],
       [name |-> "getUsers",      method |-> "GET",    path |-> "/api/users"],
       [name |-> "authMiddleware", method |-> "ALL",   path |-> "/api/*"],
       [name |-> "getUsers",      method |-> "GET",    path |-> "/api/users"],
       [name |-> "listObjects",   method |-> "GET",    path |-> "/api/objects"],
       [name |-> "objectTypes",   method |-> "GET",    path |-> "/api/object-types"],
       [name |-> "createObject",  method |-> "POST",   path |-> "/api/objects"],
       [name |-> "updateObject",  method |-> "PUT",    path |-> "/api/objects/:id"],
       [name |-> "deleteObject",  method |-> "DELETE", path |-> "/api/objects/:id"],
       [name |-> "getRoles",      method |-> "GET",    path |-> "/api/roles"],
       [name |-> "assignRole",    method |-> "POST",   path |-> "/api/users/:userId/roles"] >>

\* Does a layer match the request?  Every path of the model lies under /api.
Matches(layer, method, path) ==
    \/ layer.path = "/api/*"
    \/ layer.method = method /\ layer.path = path

\* The layer that answers the request, walking the stack from layer i: the
\* authentication middleware answers when the request is unauthenticated and
\* calls next() otherwise; a route handler always answers.
RECURSIVE RouteFrom(_, _, _, _, _)
RouteFrom(stack, i, method, path, authed) ==
    IF i > Len(stack) THEN "notFound"
    ELSE IF ~Matches(stack[i], method, path)
         THEN RouteFrom(stack, i + 1, method, path, authed)
    ELSE IF stack[i].name = "authMiddleware" /\ authed
         THEN RouteFrom(stack, i + 1, method, path, authed)
    ELSE stack[i].name

Route(method, path, s) == RouteFrom(Stack, 1, method, path, isAuthenticated(s))

\* The answer of the /api/* middleware to an unauthenticated request
Unauthorized(ep, s) ==
    /\ resp' = Response(ep, "authMiddleware", s, 401, 0, {})
    /\ UNCHANGED <<tables, session>>

\* ------------------------------------------------------------ auth.ts
\* a guard that also accepts a role granting `all`
checkRole_OrAll(s, roleName) ==
    \E r \in CallerRoles(s) : r.name = roleName \/ "all" \in r.permissions

\* the guard of the admin-only endpoints: req.user?.roles?.some(r => r.name === roleName)
checkRole(s, roleName) == \E r \in CallerRoles(s) : r.name = roleName

\* const { password: _, ...user } = userWithRoles: the user as the auth
\* endpoints serialize it, the row and its roles without the password
withoutPassword(user, userRolesList) ==
    [id |-> user.id, username |-> user.username, companyId |-> user.companyId,
     roles |-> userRolesList]

\* POST /api/auth/register
registerHandler(s, username, password, salt, companyName) ==
    IF \E u \in users : u.username = username
    THEN /\ resp' = Response("register", "register", s, 400, 0, {})
         /\ UNCHANGED <<tables, session>>
    ELSE LET company      == [id |-> NextId(companies), name |-> companyName]
             roles1       == ensureRoleExists(roles, "admin", AdminPermissions)
             roles2       == ensureRoleExists(roles1, "user", UserPermissions)
             adminRole    == RoleByName(roles2, "admin")
             userRole     == RoleByName(roles2, "user")
             newUser      == [id |-> NextId(users), username |-> username,
                              password |-> hash(password, salt),
                              companyId |-> company.id]
             users1       == users \cup {newUser}
             companyUsers == { u \in users1 : u.companyId = company.id }
             roleToAssign == IF Cardinality(companyUsers) = 1
                             THEN adminRole ELSE userRole
         IN  /\ companies' = companies \cup {company}
             /\ roles' = roles2
             /\ users' = users1
             /\ userRoles' = userRoles \cup
                    {[userId |-> newUser.id, roleId |-> roleToAssign.id]}
             /\ session' = [session EXCEPT ![s] = newUser.id]
             /\ resp' = Response("register", "register", s, 200, newUser.id,
                                 {withoutPassword(newUser, {roleToAssign})})
             /\ UNCHANGED <<objects, nextObjectId>>

\* the answer to a login request; the record keeps the credentials that were
\* sent with the request
LoginResponse(s, status, id, rows, username, password) ==
    [ep |-> "login", handler |-> "login", sess |-> s, user |-> CallerId(s),
     status |-> status, id |-> id, rows |-> rows,
     username |-> username, password |-> password]

\* LocalStrategy with a message of its own for an unknown username
verify_UnknownUser(username, password) ==
    IF ~\E u \in users : u.username = username
    THEN [user |-> Null, info |-> [message |-> "Unknown username"]]
    ELSE LET user == CHOOSE u \in users : u.username = username
         IN  IF ~compare(password, user.password)
             THEN [user |-> Null,
                   info |-> [message |-> "Invalid username or password"]]
             ELSE [user |-> Some(user), info |-> [message |-> ""]]

\* LocalStrategy verify callback: done(null, false, info) or done(null, user)
verify(username, password) ==
    IF ~\E u \in users : u.username = username
    THEN [user |-> Null,
          info |-> [message |-> "Invalid username or password"]]
    ELSE LET user == CHOOSE u \in users : u.username = username
             isMatch == compare(password, user.password)
         IN  IF ~isMatch
             THEN [user |-> Null,
                   info |-> [message |-> "Invalid username or password"]]
             ELSE [user |-> Some(user), info |-> [message |-> ""]]

\* POST /api/auth/login
loginHandler(s, username, password) ==
    LET done == verify(username, password)
    IN  IF IsNull(done.user)
        THEN /\ resp' = LoginResponse(s, 401, 0, {done.info}, username, password)
             /\ UNCHANGED <<tables, session>>
        ELSE LET user == done.user[1]
             IN  /\ session' = [session EXCEPT ![s] = user.id]
                 /\ resp' = LoginResponse(s, 200, user.id,
                        {withoutPassword(user, getUserRoles(user.id))},
                        username, password)
                 /\ UNCHANGED tables

\* POST /api/auth/logout: req.logout clears the user of the session
logoutHandler(s) ==
    /\ session' = [session EXCEPT ![s] = 0]
    /\ resp' = Response("logout", "logout", s, 200, 0, {})
    /\ UNCHANGED tables

\* GET /api/user
getUserHandler(s) ==
    /\ resp' = IF ~isAuthenticated(s)
               THEN Response("getUser", "getUser", s, 401, 0, {})
               ELSE Response("getUser", "getUser", s, 200, CallerId(s),
                             {withoutPassword(deserializeUser(s), CallerRoles(s))})
    /\ UNCHANGED <<tables, session>>

\* GET /api/roles
getRolesHandler(s) ==
    /\ resp' = IF ~checkRole(s, "admin")
               THEN Response("getRoles", "getRoles", s, 403, 0, {})
               ELSE Response("getRoles", "getRoles", s, 200, 0, roles)
    /\ UNCHANGED <<tables, session>>

\* a check of the target's existence alone
targetInCompany_AnyCompany(s, userId) ==
    \E targetUser \in users : targetUser.id = userId

\* targetUser && targetUser.companyId === req.user.companyId
targetInCompany(s, userId) ==
    \E targetUser \in users : /\ targetUser.id = userId
                              /\ targetUser.companyId = CallerCompany(s)

\* user_roles without its primary key
primaryKey_NotDeclared(urs, userId, roleId) == TRUE

\* primaryKey(userId, roleId): an insert of a pair the table holds fails
primaryKey(urs, userId, roleId) ==
    [userId |-> userId, roleId |-> roleId] \notin urs

\* the answer to POST /api/users/:userId/roles, with the roleId of the body
AssignResponse(s, status, userId, roleId) ==
    [ep |-> "assignRole", handler |-> "assignRole", sess |-> s,
     user |-> CallerId(s), status |-> status, id |-> userId, rows |-> {},
     roleId |-> roleId]

\* POST /api/users/:userId/roles.  The insert fails (500) on a roleId that
\* references no role or on a (userId, roleId) pair already present.
assignRoleHandler(s, userId, roleId) ==
    IF ~checkRole(s, "admin")
    THEN /\ resp' = AssignResponse(s, 403, userId, roleId)
         /\ UNCHANGED <<tables, session>>
    ELSE IF ~targetInCompany(s, userId)
    THEN /\ resp' = AssignResponse(s, 403, userId, roleId)
         /\ UNCHANGED <<tables, session>>
    ELSE IF \/ ~\E r \in roles : r.id = roleId
            \/ ~primaryKey(userRoles, userId, roleId)
    THEN /\ resp' = AssignResponse(s, 500, userId, roleId)
         /\ UNCHANGED <<tables, session>>
    ELSE /\ userRoles' = userRoles \cup {[userId |-> userId, roleId |-> roleId]}
         /\ resp' = AssignResponse(s, 200, userId, roleId)
         /\ UNCHANGED <<companies, users, roles, objects, nextObjectId, session>>

\* GET /api/users without the company condition
getUsersHandler_AllCompanies(s) ==
    /\ resp' = IF ~checkRole(s, "admin")
               THEN Response("getUsers", "getUsers", s, 403, 0, {})
               ELSE LET usersWithRoles ==
                            { [id |-> u.id, username |-> u.username,
                               password |-> u.password,
                               companyId |-> u.companyId,
                               roles |-> getUserRoles(u.id)] : u \in users }
                    IN  Response("getUsers", "getUsers", s, 200, 0, usersWithRoles)
    /\ UNCHANGED <<tables, session>>

\* GET /api/users: the rows of the caller's company, each with its roles
getUsersHandler(s) ==
    /\ resp' = IF ~checkRole(s, "admin")
               THEN Response("getUsers", "getUsers", s, 403, 0, {})
               ELSE LET companyUsers ==
                            { u \in users : u.companyId = CallerCompany(s) }
                        usersWithRoles ==
                            { [id |-> u.id, username |-> u.username,
                               password |-> u.password,
                               companyId |-> u.companyId,
                               roles |-> getUserRoles(u.id)] : u \in companyUsers }
                    IN  Response("getUsers", "getUsers", s, 200, 0, usersWithRoles)
    /\ UNCHANGED <<tables, session>>

\* ------------------------------------------------------------ routes.ts
\* the guard without the `all` flag
hasPermission_NoAll(s, flag) ==
    \E r \in CallerRoles(s) : flag \in r.permissions

\* the permission guard of the mutating object endpoints:
\* userRoles.some(r => r.permissions[flag] === true || r.permissions.all === true)
hasPermission(s, flag) ==
    \E r \in CallerRoles(s) : flag \in r.permissions \/ "all" \in r.permissions

\* {createdBy, companyId, ...req.body}: the body's values win where present
insertValues_BodyWins(s, body) ==
    [body EXCEPT !.createdBy = IF @ = 0 THEN CallerId(s) ELSE @,
                 !.companyId = IF @ = 0 THEN CallerCompany(s) ELSE @]

\* {...req.body, createdBy: req.user.id, companyId: req.user.companyId}
insertValues(s, body) ==
    [body EXCEPT !.createdBy = CallerId(s), !.companyId = CallerCompany(s)]

\* POST /api/objects: name and type are NOT NULL columns, a body without
\* them fails the insert (500).
createObjectHandler(s, body) ==
    IF ~hasPermission(s, "create")
    THEN /\ resp' = Response("createObject", "createObject", s, 403, 0, {})
         /\ UNCHANGED <<tables, session>>
    ELSE IF IsNull(body.name) \/ IsNull(body.type)
    THEN /\ resp' = Response("createObject", "createObject", s, 500, 0, {})
         /\ UNCHANGED <<tables, session>>
    ELSE LET values == insertValues(s, body)
             object == [id |-> nextObjectId,
                        name |-> values.name[1], type |-> values.type[1],
                        description |-> values.description,
                        createdBy |-> values.createdBy,
                        companyId |-> values.companyId]
         IN  /\ objects' = objects \cup {object}
             /\ nextObjectId' = nextObjectId + 1
             /\ resp' = Response("createObject", "createObject", s, 200,
                                 object.id, {object})
             /\ UNCHANGED <<companies, users, roles, userRoles, session>>

\* select by id alone
findObject_ByIdOnly(s, id) == { o \in objects : o.id = id }

\* select().from(objects).where(and(eq(id), eq(companyId))).limit(1)
findObject(s, id) ==
    { o \in objects : o.id = id /\ o.companyId = CallerCompany(s) }

\* update(objects).set(req.body): the row with the columns of the body replaced
SetColumns(o, body) ==
    [o EXCEPT !.name = IF IsNull(body.name) THEN @ ELSE body.name[1],
              !.type = IF IsNull(body.type) THEN @ ELSE body.type[1],
              !.companyId = IF body.companyId = 0 THEN @ ELSE body.companyId]

\* PUT that answers 403 for a row of another company
updateObjectHandler_ForeignForbidden(s, id, body) ==
    IF ~hasPermission(s, "update")
       \/ \E o \in objects : o.id = id /\ o.companyId # CallerCompany(s)
    THEN /\ resp' = Response("updateObject", "updateObject", s, 403, id, {})
         /\ UNCHANGED <<tables, session>>
    ELSE IF findObject(s, id) = {}
    THEN /\ resp' = Response("updateObject", "updateObject", s, 404, id, {})
         /\ UNCHANGED <<tables, session>>
    ELSE LET updatedObject ==
                 SetColumns(CHOOSE o \in objects : o.id = id, body)
         IN  /\ objects' = { o \in objects : o.id # id } \cup {updatedObject}
             /\ resp' = Response("updateObject", "updateObject", s, 200, id,
                                 {updatedObject})
             /\ UNCHANGED <<companies, users, roles, userRoles, nextObjectId,
                            session>>

\* PUT /api/objects/:id.  The update fails (500) on a body without columns
\* and on a companyId that references no company.
updateObjectHandler(s, id, body) ==
    IF ~hasPermission(s, "update")
    THEN /\ resp' = Response("updateObject", "updateObject", s, 403, id, {})
         /\ UNCHANGED <<tables, session>>
    ELSE IF findObject(s, id) = {}
    THEN /\ resp' = Response("updateObject", "updateObject", s, 404, id, {})
         /\ UNCHANGED <<tables, session>>
    ELSE IF \/ IsNull(body.name) /\ IsNull(body.type) /\ body.companyId = 0
            \/ body.companyId # 0 /\ ~\E c \in companies : c.id = body.companyId
    THEN /\ resp' = Response("updateObject", "updateObject", s, 500, id, {})
         /\ UNCHANGED <<tables, session>>
    ELSE LET updatedObject ==
                 SetColumns(CHOOSE o \in objects : o.id = id, body)
         IN  /\ objects' = { o \in objects : o.id # id } \cup {updatedObject}
             /\ resp' = Response("updateObject", "updateObject", s, 200, id,
                                 {updatedObject})
             /\ UNCHANGED <<companies, users, roles, userRoles, nextObjectId,
                            session>>

\* DELETE with the existence check ahead of the permission check
deleteObjectHandler_ExistenceFirst(s, id) ==
    IF findObject(s, id) = {}
    THEN /\ resp' = Response("deleteObject", "deleteObject", s, 404, id, {})
         /\ UNCHANGED <<tables, session>>
    ELSE IF ~hasPermission(s, "delete")
    THEN /\ resp' = Response("deleteObject", "deleteObject", s, 403, id, {})
         /\ UNCHANGED <<tables, session>>
    ELSE /\ objects' = { o \in objects : o.id # id }
         /\ resp' = Response("deleteObject", "deleteObject", s, 200, id, {})
         /\ UNCHANGED <<companies, users, roles, userRoles, nextObjectId,
                        session>>

\* DELETE /api/objects/:id
deleteObjectHandler(s, id) ==
    IF ~hasPermission(s, "delete")
    THEN /\ resp' = Response("deleteObject", "deleteObject", s, 403, id, {})
         /\ UNCHANGED <<tables, session>>
    ELSE IF findObject(s, id) = {}
    THEN /\ resp' = Response("deleteObject", "deleteObject", s, 404, id, {})
         /\ UNCHANGED <<tables, session>>
    ELSE /\ objects' = { o \in objects : o.id # id }
         /\ resp' = Response("deleteObject", "deleteObject", s, 200, id, {})
         /\ UNCHANGED <<companies, users, roles, userRoles, nextObjectId,
                        session>>

\* ------------------------------------------------------------ GET /api/objects
\* lower-casing of the characters the model uses (ILIKE ignores case)
Lower(c) ==
    CASE c = "A" -> "a"
      [] c = "B" -> "b"
      [] c = "L" -> "l"
      [] c = "C" -> "c"
      [] c = "P" -> "p"
      [] c = "T" -> "t"
      [] OTHER   -> c

LowerText(text) == [i \in 1..Len(text) |-> Lower(text[i])]

\* ilike(column, `%${term}%`): the term occurs in the text, ignoring case
ilike(text, term) ==
    \E i \in 1..(Len(text) - Len(term) + 1) :
        SubSeq(LowerText(text), i, i + Len(term) - 1) = LowerText(term)

\* The value of a condition on a row.  A NULL description makes its ilike
\* NULL, which the OR of the search condition treats as not matching.
Holds(cond, o) ==
    CASE cond.kind = "company" -> o.companyId = cond.arg
      [] cond.kind = "search"  -> \/ ilike(o.name, cond.arg)
                                  \/ ilike(o.type, cond.arg)
                                  \/ /\ ~IsNull(o.description)
                                     /\ ilike(o.description[1], cond.arg)
      [] cond.kind = "type"    -> o.type = cond.arg
      [] OTHER                 -> FALSE

\* query.where(cond): the select builder keeps a single where clause, the
\* clause of the latest call
where(query, cond) == [query EXCEPT !.where = cond]

TypeAll == <<"_", "a", "l", "l">>

\* The query GET /api/objects builds from its parameters.  A fields filter
\* hands where() a plain string, which is not a condition: the statement is
\* rejected when it runs.
buildQuery(companyId, search, type, fields) ==
    LET q0 == where([where |-> [kind |-> "none", arg |-> 0]],
                    [kind |-> "company", arg |-> companyId])
        q1 == IF ~IsNull(search)
              THEN where(q0, [kind |-> "search", arg |-> search[1]]) ELSE q0
        q2 == IF ~IsNull(type) /\ type[1] # TypeAll
              THEN where(q1, [kind |-> "type", arg |-> type[1]]) ELSE q1
        q3 == IF fields
              THEN where(q2, [kind |-> "raw", arg |-> 0]) ELSE q2
    IN  q3

\* the orders in which a statement without ORDER BY may return a set of rows
Orderings(rows) ==
    { seq \in [1..Cardinality(rows) -> rows] :
        \A i, j \in 1..Cardinality(rows) : seq[i] = seq[j] => i = j }

\* the code units of the characters, in increasing order
Codes == <<"B", "C", "L", "P", "T", "_", "a", "b", "c", "d", "e", "j", "k",
           "l", "m", "n", "o", "p", "r", "s", "t", "y">>

CharCode(c) == CHOOSE i \in 1..Len(Codes) : Codes[i] = c

\* text comparison of ORDER BY: by the first character that differs
RECURSIVE TextLess(_, _)
TextLess(a, b) ==
    IF b = <<>> THEN FALSE
    ELSE IF a = <<>> THEN TRUE
    ELSE IF a[1] # b[1] THEN CharCode(a[1]) < CharCode(b[1])
    ELSE TextLess(Tail(a), Tail(b))

\* created_at defaultNow(): rows are stamped when they are inserted, in the
\* order in which their ids are drawn
createdAt(o) == o.id

\* the column and the direction of the orderBy the handler adds
orderBy(sortBy, sortOrder) ==
    IF ~IsNull(sortBy)
    THEN LET orderFunc == IF sortOrder = Some("desc") THEN "desc" ELSE "asc"
         IN  CASE sortBy[1] = "name"      -> [column |-> "name", func |-> orderFunc]
               [] sortBy[1] = "type"      -> [column |-> "type", func |-> orderFunc]
               [] sortBy[1] = "createdAt" -> [column |-> "createdAt",
                                              func |-> orderFunc]
               [] OTHER -> [column |-> "createdAt", func |-> "desc"]
    ELSE [column |-> "createdAt", func |-> "desc"]

\* o1 comes before o2 in the column
ColumnLess(column, o1, o2) ==
    CASE column = "name" -> TextLess(o1.name, o2.name)
      [] column = "type" -> TextLess(o1.type, o2.type)
      [] OTHER           -> createdAt(o1) < createdAt(o2)

\* the orders in which the statement may return its rows: rows that are
\* equal in the column come in any order
Sorted(rows, order) ==
    { seq \in Orderings(rows) :
        \A i, j \in 1..Len(seq) :
            i < j => IF order.func = "asc"
                     THEN ~ColumnLess(order.column, seq[j], seq[i])
                     ELSE ~ColumnLess(order.column, seq[i], seq[j]) }

\* the answer to GET /api/objects: the rows, their ids in the order of the
\* answer, and the parameters the request was sent with
ListResponse(s, status, rows, order, query) ==
    [ep |-> "listObjects", handler |-> "listObjects", sess |-> s,
     user |-> CallerId(s), status |-> status, id |-> 0, rows |-> rows,
     order |-> order, query |-> query]

\* GET /api/objects behind a check of the read flag
listObjectsHandler_ReadGate(s, search, type, fields, sortBy, sortOrder) ==
    LET query == buildQuery(CallerCompany(s), search, type, fields)
        sent  == [search |-> search, type |-> type, fields |-> fields,
                  sortBy |-> sortBy, sortOrder |-> sortOrder]
    IN  /\ IF ~hasPermission(s, "read")
           THEN resp' = ListResponse(s, 403, {}, <<>>, sent)
           ELSE IF query.where.kind = "raw"
           THEN resp' = ListResponse(s, 500, {}, <<>>, sent)
           ELSE \E result \in Sorted({ o \in objects : Holds(query.where, o) },
                                     orderBy(sortBy, sortOrder)) :
                    resp' = ListResponse(s, 200,
                                { result[i] : i \in 1..Len(result) },
                                [i \in 1..Len(result) |-> result[i].id], sent)
        /\ UNCHANGED <<tables, session>>

\* GET /api/objects
listObjectsHandler(s, search, type, fields, sortBy, sortOrder) ==
    LET query == buildQuery(CallerCompany(s), search, type, fields)
        sent  == [search |-> search, type |-> type, fields |-> fields,
                  sortBy |-> sortBy, sortOrder |-> sortOrder]
    IN  /\ IF query.where.kind = "raw"
           THEN resp' = ListResponse(s, 500, {}, <<>>, sent)
           ELSE \E result \in Sorted({ o \in objects : Holds(query.where, o) },
                                     orderBy(sortBy, sortOrder)) :
                    resp' = ListResponse(s, 200,
                                { result[i] : i \in 1..Len(result) },
                                [i \in 1..Len(result) |-> result[i].id], sent)
        /\ UNCHANGED <<tables, session>>

TypeContact == <<"C", "o", "n", "t", "a", "c", "t">>
TypeCompany == <<"C", "o", "m", "p", "a", "n", "y">>
TypeProject == <<"P", "r", "o", "j", "e", "c", "t">>
TypeTask    == <<"T", "a", "s", "k">>
suggestedTypes == <<TypeContact, TypeLead, TypeCompany, TypeProject, TypeTask>>

\* [...new Set(list)]: the list without the repetitions of an element
RECURSIVE Distinct(_)
Distinct(list) ==
    IF list = <<>> THEN <<>>
    ELSE LET front == Distinct(SubSeq(list, 1, Len(list) - 1))
             last  == list[Len(list)]
         IN  IF \E i \in 1..Len(front) : front[i] = last
             THEN front ELSE Append(front, last)

\* GET /api/object-types over the objects of every company
objectTypesHandler_AllCompanies(s) ==
    /\ \E existingTypes \in Orderings({ o.type : o \in objects }) :
          resp' = Response("objectTypes", "objectTypes", s, 200, 0,
                           Distinct(existingTypes \o suggestedTypes))
    /\ UNCHANGED <<tables, session>>

\* GET /api/object-types
objectTypesHandler(s) ==
    /\ \E existingTypes \in Orderings(
              { o.type : o \in { x \in objects : x.companyId = CallerCompany(s) } }) :
          LET allTypes == Distinct(existingTypes \o suggestedTypes)
          IN  resp' = Response("objectTypes", "objectTypes", s, 200, 0, allTypes)
    /\ UNCHANGED <<tables, session>>

\* ------------------------------------------------------------ requests
\* request bodies of POST /api/objects: a plain one, one without a name, and
\* two that carry their own companyId and createdBy (user 2 holds no role
\* that grants create, so the createdBy of the body is never the caller's)
CreateBodies ==
    { [name |-> Some(<<"a", "b">>), type |-> Some(TypeLead),
       description |-> Null, companyId |-> 0, createdBy |-> 0],
      [name |-> Null, type |-> Some(TypeLead),
       description |-> Null, companyId |-> 0, createdBy |-> 0] }
    \cup
    { [name |-> Some(<<"B">>), type |-> Some(TypeBot),
       description |-> Some(<<"b", "a">>), companyId |-> c, createdBy |-> 2] :
         c \in 1..2 }

\* request bodies of PUT /api/objects/:id: a rename, a body that carries a
\* companyId (of an existing company or not), and an empty one
UpdateBodies ==
    { [name |-> Some(<<"B">>), type |-> Null, companyId |-> 0],
      [name |-> Null, type |-> Null, companyId |-> 0] }
    \cup
    { [name |-> Null, type |-> Null, companyId |-> c] : c \in 1..MaxCompanies }

\* query strings of GET /api/objects: every combination of search and type
\* without a fields filter, and two with one
ListQueries ==
    { [search |-> search, type |-> type, fields |-> FALSE,
       sortBy |-> Null, sortOrder |-> Null] :
        search \in {Null, Some(<<"a">>)}, type \in {Null, Some(TypeLead)} }
    \cup
    { [search |-> Null, type |-> Null, fields |-> TRUE,
       sortBy |-> Null, sortOrder |-> Null] }

\* the parameters of GET /api/objects with the sort parameters: every filter
\* with the default order, and every order on the filters of one search
SortedListQueries ==
    { [search |-> search, type |-> type, fields |-> FALSE,
       sortBy |-> Null, sortOrder |-> Null] :
        search \in {Null} \cup {Some(x) : x \in SearchTerms},
        type \in {Null, Some(TypeAll)} \cup {Some(x) : x \in ObjTypes} }
    \cup
    { [search |-> search, type |-> Null, fields |-> TRUE,
       sortBy |-> Null, sortOrder |-> Null] :
        search \in {Null, Some(<<"a">>)} }
    \cup
    { [search |-> Some(<<"b">>), type |-> type, fields |-> FALSE,
       sortBy |-> Some(sortBy), sortOrder |-> sortOrder] :
        type \in {Null, Some(TypeLead)},
        sortBy \in {"name", "type", "createdAt", "updatedAt"},
        sortOrder \in {Null, Some("asc"), Some("desc")} }

Register(s, username, password, salt, companyName) ==
    /\ Cardinality(companies) < MaxCompanies
           \/ \E u \in users : u.username = username
    /\ IF Route("POST", "/api/auth/register", s) = "authMiddleware"
       THEN Unauthorized("register", s)
       ELSE registerHandler(s, username, password, salt, companyName)
    /\ UNCHANGED reg

Login(s, username, password) ==
    /\ IF Route("POST", "/api/auth/login", s) = "authMiddleware"
       THEN Unauthorized("login", s)
       ELSE loginHandler(s, username, password)
    /\ UNCHANGED reg

Logout(s) ==
    /\ IF Route("POST", "/api/auth/logout", s) = "authMiddleware"
       THEN Unauthorized("logout", s)
       ELSE logoutHandler(s)
    /\ UNCHANGED reg

GetUser(s) ==
    /\ IF Route("GET", "/api/user", s) = "authMiddleware"
       THEN Unauthorized("getUser", s)
       ELSE getUserHandler(s)
    /\ UNCHANGED reg

GetRoles(s) ==
    /\ IF Route("GET", "/api/roles", s) = "authMiddleware"
       THEN Unauthorized("getRoles", s)
       ELSE getRolesHandler(s)
    /\ UNCHANGED reg

AssignRole(s, userId, roleId) ==
    /\ IF Route("POST", "/api/users/:userId/roles", s) = "authMiddleware"
       THEN Unauthorized("assignRole", s)
       ELSE assignRoleHandler(s, userId, roleId)
    /\ userRoles' = userRoles \/ Cardinality(userRoles) < MaxUserRoles
    /\ UNCHANGED reg

GetUsers(s) ==
    /\ IF Route("GET", "/api/users", s) = "authMiddleware"
       THEN Unauthorized("getUsers", s)
       ELSE getUsersHandler(s)
    /\ UNCHANGED reg

ListObjects(s, search, type, fields, sortBy, sortOrder) ==
    /\ IF Route("GET", "/api/objects", s) = "authMiddleware"
       THEN Unauthorized("listObjects", s)
       ELSE listObjectsHandler(s, search, type, fields, sortBy, sortOrder)
    /\ UNCHANGED reg

ObjectTypes(s) ==
    /\ IF Route("GET", "/api/object-types", s) = "authMiddleware"
       THEN Unauthorized("objectTypes", s)
       ELSE objectTypesHandler(s)
    /\ UNCHANGED reg

CreateObject(s, body) ==
    /\ IF Route("POST", "/api/objects", s) = "authMiddleware"
       THEN Unauthorized("createObject", s)
       ELSE createObjectHandler(s, body)
    /\ objects' = objects \/ nextObjectId <= MaxObjectId
    /\ UNCHANGED reg

UpdateObject(s, id, body) ==
    /\ IF Route("PUT", "/api/objects/:id", s) = "authMiddleware"
       THEN resp' = Response("updateObject", "authMiddleware", s, 401, id, {})
            /\ UNCHANGED <<tables, session>>
       ELSE updateObjectHandler(s, id, body)
    /\ UNCHANGED reg

DeleteObject(s, id) ==
    /\ IF Route("DELETE", "/api/objects/:id", s) = "authMiddleware"
       THEN resp' = Response("deleteObject", "authMiddleware", s, 401, id, {})
            /\ UNCHANGED <<tables, session>>
       ELSE deleteObjectHandler(s, id)
    /\ UNCHANGED reg

\* ------------------------------------------------ registration, step by step
\* POST /api/auth/register awaits one statement after the other, and the
\* statements of two requests interleave. reg[s] holds the request of client
\* s that is in flight: the statement it runs next and the rows it was given.
\* A client sends one request at a time.
Registrants     == {"dave", "erin"}
NewCompanyNames == {"Gamma"}

RoleSelects == {"selectAdminRole", "selectUserRole"}
RoleInserts == {"insertAdminRole", "insertUserRole"}

\* the role ensureRoleExists is called for at a statement of reg[s]
RoleName(pc) ==
    IF pc \in {"selectAdminRole", "insertAdminRole"} THEN "admin" ELSE "user"

RolePermissions(pc) ==
    IF pc \in {"selectAdminRole", "insertAdminRole"}
    THEN AdminPermissions ELSE UserPermissions

\* insert(companies).values({ name: companyName }) reusing a row of that name
insertCompany_ReuseName(cs, name) ==
    IF \E c \in cs : c.name = name
    THEN [id |-> (CHOOSE c \in cs : c.name = name).id, name |-> name]
    ELSE [id |-> NextId(cs), name |-> name]

\* a registration that joins the company inserted last
insertCompany_JoinLatest(cs, name) ==
    IF cs = {}
    THEN [id |-> 1, name |-> name]
    ELSE CHOOSE c \in cs : \A d \in cs : d.id <= c.id

\* insert(companies).values({ name: companyName }).returning(): a new row
insertCompany(cs, name) == [id |-> NextId(cs), name |-> name]

\* roles.name without the unique constraint
uniqueRoleName_NotDeclared(rs, name) == TRUE

\* roles.name is declared unique: an insert of a name the table holds fails
uniqueRoleName(rs, name) == ~\E r \in rs : r.name = name

\* users.username is declared unique
uniqueUsername(us, username) == ~\E u \in us : u.username = username

\* catch (error): the statement threw, the request is answered 500
registerFailed(s) ==
    /\ resp' = Response("register", "register", s, 500, 0, {})
    /\ reg' = [reg EXCEPT ![s] = Idle]
    /\ UNCHANGED <<tables, session>>

\* the request arrives and selects the user of that username
registerSelectExisting(s, username, password, salt, companyName) ==
    /\ reg[s].pc = "idle"
    /\ \/ \E u \in users : u.username = username
       \/ Cardinality(companies)
            + Cardinality({ x \in Sessions : reg[x].pc = "insertCompany" })
              < MaxCompanies
    /\ IF \E existingUser \in users : existingUser.username = username
       THEN /\ resp' = Response("register", "register", s, 400, 0, {})
            /\ UNCHANGED reg
       ELSE /\ reg' = [reg EXCEPT ![s] =
                        [Idle EXCEPT !.pc = "insertCompany",
                                     !.username = username,
                                     !.password = password,
                                     !.salt = salt,
                                     !.companyName = companyName]]
            /\ UNCHANGED resp
    /\ UNCHANGED <<tables, session>>

registerInsertCompany(s) ==
    /\ reg[s].pc = "insertCompany"
    /\ LET company == insertCompany(companies, reg[s].companyName)
       IN  /\ companies' = companies \cup {company}
           /\ reg' = [reg EXCEPT ![s].pc = "selectAdminRole",
                                 ![s].company = company.id]
    /\ UNCHANGED <<users, roles, userRoles, objects, nextObjectId, session, resp>>

\* ensureRoleExists, the select: the row of that name, if there is one
ensureRoleSelect(s) ==
    /\ reg[s].pc \in RoleSelects
    /\ LET name  == RoleName(reg[s].pc)
           found == \E r \in roles : r.name = name
           id    == IF found THEN RoleByName(roles, name).id ELSE 0
       IN  reg' = IF reg[s].pc = "selectAdminRole"
                  THEN [reg EXCEPT ![s].adminRole = id,
                                   ![s].pc = IF found THEN "selectUserRole"
                                                      ELSE "insertAdminRole"]
                  ELSE [reg EXCEPT ![s].userRole = id,
                                   ![s].pc = IF found THEN "insertUser"
                                                      ELSE "insertUserRole"]
    /\ UNCHANGED <<tables, session, resp>>

\* ensureRoleExists, the insert that follows a select that found no row
ensureRoleInsert(s) ==
    /\ reg[s].pc \in RoleInserts
    /\ LET name == RoleName(reg[s].pc)
           newRole == [id |-> NextId(roles), name |-> name,
                       permissions |-> RolePermissions(reg[s].pc)]
       IN  IF uniqueRoleName(roles, name)
           THEN /\ roles' = roles \cup {newRole}
                /\ reg' = IF reg[s].pc = "insertAdminRole"
                           THEN [reg EXCEPT ![s].adminRole = newRole.id,
                                            ![s].pc = "selectUserRole"]
                           ELSE [reg EXCEPT ![s].userRole = newRole.id,
                                            ![s].pc = "insertUser"]
                /\ UNCHANGED <<companies, users, userRoles, objects,
                               nextObjectId, session, resp>>
           ELSE registerFailed(s)

\* crypto.hash and insert(users)
registerInsertUser(s) ==
    /\ reg[s].pc = "insertUser"
    /\ LET newUser == [id |-> NextId(users), username |-> reg[s].username,
                       password |-> hash(reg[s].password, reg[s].salt),
                       companyId |-> reg[s].company]
       IN  IF uniqueUsername(users, reg[s].username)
           THEN /\ users' = users \cup {newUser}
                /\ reg' = [reg EXCEPT ![s].newUser = newUser.id,
                                      ![s].pc = "selectCompanyUsers"]
                /\ UNCHANGED <<companies, roles, userRoles, objects,
                               nextObjectId, session, resp>>
           ELSE registerFailed(s)

\* the users of the new company are counted and the role is chosen
registerSelectCompanyUsers(s) ==
    /\ reg[s].pc = "selectCompanyUsers"
    /\ LET companyUsers == { u \in users : u.companyId = reg[s].company }
       IN  reg' = [reg EXCEPT ![s].roleToAssign =
                                  IF Cardinality(companyUsers) = 1
                                  THEN reg[s].adminRole ELSE reg[s].userRole,
                              ![s].pc = "insertUserRoles"]
    /\ UNCHANGED <<tables, session, resp>>

registerInsertUserRoles(s) ==
    /\ reg[s].pc = "insertUserRoles"
    /\ userRoles' = userRoles \cup {[userId |-> reg[s].newUser,
                                     roleId |-> reg[s].roleToAssign]}
    /\ reg' = [reg EXCEPT ![s].pc = "login"]
    /\ UNCHANGED <<companies, users, roles, objects, nextObjectId,
                   session, resp>>

\* getUserRoles, req.login and the answer
registerLogin(s) ==
    /\ reg[s].pc = "login"
    /\ LET newUser == CHOOSE u \in users : u.id = reg[s].newUser
           userRolesList == getUserRoles(newUser.id)
       IN  /\ session' = [session EXCEPT ![s] = newUser.id]
           /\ resp' = Response("register", "register", s, 200, newUser.id,
                               {withoutPassword(newUser, userRolesList)})
    /\ reg' = [reg EXCEPT ![s] = Idle]
    /\ UNCHANGED tables

\* the server process stops and is started again: the requests in flight are
\* lost with the sessions of the MemoryStore, the database keeps its rows
Crash ==
    /\ \E s \in Sessions : reg[s].pc # "idle"
    /\ reg' = [s \in Sessions |-> Idle]
    /\ session' = [s \in Sessions |-> 0]
    /\ resp' = [ep |-> "crash", handler |-> "none", sess |-> "s1", user |-> 0,
                status |-> 0, id |-> 0, rows |-> {}]
    /\ UNCHANGED tables

\* ------------------------------------------- PUT and DELETE, step by step
\* PUT and DELETE /api/objects/:id await the select that checks the row and
\* then the statement that writes it; the statements of two requests
\* interleave.  Between the two, reg[s] holds the write client s is to run:
\* the id of the path and, for PUT, the body.

\* PUT: the guards and the select by id and companyId
updateObjectCheck(s, id, body) ==
    /\ reg[s].pc = "idle"
    /\ IF Route("PUT", "/api/objects/:id", s) = "authMiddleware"
       THEN /\ resp' = Response("updateObject", "authMiddleware", s, 401, id, {})
            /\ UNCHANGED reg
       ELSE IF ~hasPermission(s, "update")
       THEN /\ resp' = Response("updateObject", "updateObject", s, 403, id, {})
            /\ UNCHANGED reg
       ELSE IF findObject(s, id) = {}
       THEN /\ resp' = Response("updateObject", "updateObject", s, 404, id, {})
            /\ UNCHANGED reg
       ELSE /\ reg' = [reg EXCEPT ![s] =
                        [pc |-> "updateWrite", id |-> id, body |-> body]]
            /\ UNCHANGED resp
    /\ UNCHANGED <<tables, session>>

\* PUT: update(objects).set(req.body).where(eq(objects.id, id)).returning()
\* and res.json(updatedObject).  A body without columns fails the statement;
\* a companyId that references no company fails it when a row is written.
updateObjectWrite(s) ==
    /\ reg[s].pc = "updateWrite"
    /\ LET id      == reg[s].id
           body    == reg[s].body
           matched == { o \in objects : o.id = id }
           updated == { SetColumns(o, body) : o \in matched }
       IN  IF \/ IsNull(body.name) /\ IsNull(body.type) /\ body.companyId = 0
              \/ /\ matched # {}
                 /\ body.companyId # 0
                 /\ ~\E c \in companies : c.id = body.companyId
           THEN /\ resp' = Response("updateObject", "updateObject", s, 500, id, {})
                /\ UNCHANGED objects
           ELSE /\ objects' = (objects \ matched) \cup updated
                /\ resp' = Response("updateObject", "updateObject", s, 200, id,
                                    updated)
    /\ reg' = [reg EXCEPT ![s] = Idle]
    /\ UNCHANGED <<companies, users, roles, userRoles, nextObjectId, session>>

\* DELETE: the guards and the select by id and companyId
deleteObjectCheck(s, id) ==
    /\ reg[s].pc = "idle"
    /\ IF Route("DELETE", "/api/objects/:id", s) = "authMiddleware"
       THEN /\ resp' = Response("deleteObject", "authMiddleware", s, 401, id, {})
            /\ UNCHANGED reg
       ELSE IF ~hasPermission(s, "delete")
       THEN /\ resp' = Response("deleteObject", "deleteObject", s, 403, id, {})
            /\ UNCHANGED reg
       ELSE IF findObject(s, id) = {}
       THEN /\ resp' = Response("deleteObject", "deleteObject", s, 404, id, {})
            /\ UNCHANGED reg
       ELSE /\ reg' = [reg EXCEPT ![s] = [pc |-> "deleteWrite", id |-> id]]
            /\ UNCHANGED resp
    /\ UNCHANGED <<tables, session>>

\* DELETE: delete(objects).where(eq(objects.id, id)) and the answer
deleteObjectWrite(s) ==
    /\ reg[s].pc = "deleteWrite"
    /\ objects' = { o \in objects : o.id # reg[s].id }
    /\ resp' = Response("deleteObject", "deleteObject", s, 200, reg[s].id, {})
    /\ reg' = [reg EXCEPT ![s] = Idle]
    /\ UNCHANGED <<companies, users, roles, userRoles, nextObjectId, session>>

\* ------------------------------------------------------------ initial state
SuperPermissions  == {"all"}
ViewerPermissions == {"read"}
EditorPermissions == {"read", "update"}

\* the two bootstrap roles as registration creates them, and three roles an
\* operator has added
RoleRows ==
    { [id |-> 1, name |-> "admin",  permissions |-> AdminPermissions],
      [id |-> 2, name |-> "user",   permissions |-> UserPermissions],
      [id |-> 3, name |-> "super",  permissions |-> SuperPermissions],
      [id |-> 4, name |-> "viewer", permissions |-> ViewerPermissions],
      [id |-> 5, name |-> "editor", permissions |-> EditorPermissions] }

\* A database earlier runs and the operator have filled: two companies, the
\* roles 1..nRoles of RoleRows, an admin (alice) and a second user (bob) in
\* Acme, and a user of Beta (carol) whose only role grants `all`.  bobRoles
\* are the ids of the roles bob holds.
Database(nRoles, bobRoles) ==
    /\ companies = { [id |-> 1, name |-> "Acme"], [id |-> 2, name |-> "Beta"] }
    /\ roles = { r \in RoleRows : r.id <= nRoles }
    /\ users = { [id |-> 1, username |-> "alice",
                  password |-> hash("pw1", "salt1"), companyId |-> 1],
                 [id |-> 2, username |-> "bob",
                  password |-> hash("pw1", "salt1"), companyId |-> 1],
                 [id |-> 3, username |-> "carol",
                  password |-> hash("pw1", "salt1"), companyId |-> 2] }
    /\ userRoles = { [userId |-> 1, roleId |-> 1], [userId |-> 3, roleId |-> 3] }
                      \cup { [userId |-> 2, roleId |-> r] : r \in bobRoles }
    /\ objects = {}
    /\ nextObjectId = 1
    /\ session = [s \in Sessions |-> 0]
    /\ resp = [ep |-> "none", handler |-> "none", sess |-> "s1", user |-> 0,
               status |-> 0, id |-> 0, rows |-> {}]
    /\ reg = [s \in Sessions |-> Idle]

\* ------------------------------------------------------------ object endpoints
\* The object endpoints read the user directory and never write it; they are
\* explored for one client over the directories bob's roles range over.
InitObjects == \E bobRoles \in SUBSET {4, 5} : Database(5, bobRoles)

NextObjects ==
    \/ \E username \in Usernames : Login("s1", username, "pw1")
    \/ Logout("s1")
    \/ \E q \in ListQueries :
            ListObjects("s1", q.search, q.type, q.fields, q.sortBy, q.sortOrder)
    \/ ObjectTypes("s1")
    \/ \E body \in CreateBodies : CreateObject("s1", body)
    \/ \E id \in 1..nextObjectId, body \in UpdateBodies :
            UpdateObject("s1", id, body)
    \/ \E id \in 1..nextObjectId : DeleteObject("s1", id)

SpecObjects == InitObjects /\ [][NextObjects]_vars

\* ------------------------------------------------------------ directory endpoints
\* The endpoints of auth.ts never read the objects table; they are explored
\* for two clients.
InitAdmin == Database(3, {})

NextAdmin ==
    \/ \E s \in Sessions, username \in Usernames, password \in NewPasswords,
          salt \in Salts, companyName \in CompanyNames :
            Register(s, username, password, salt, companyName)
    \/ \E s \in Sessions, username \in Usernames, password \in Passwords :
            Login(s, username, password)
    \/ \E s \in Sessions : Logout(s)
    \/ \E s \in Sessions : GetUser(s)
    \/ \E s \in Sessions : GetRoles(s)
    \/ \E userId \in 1..NextId(users), roleId \in 1..NextId(roles) :
            AssignRole("s1", userId, roleId)
    \/ \E s \in Sessions : GetUsers(s)

SpecAdmin == InitAdmin /\ [][NextAdmin]_vars

\* ------------------------------------------------------------ properties
\* What the tables say about a user, read independently of the handlers.
CompanyOfUser(userId) ==
    IF \E u \in users : u.id = userId
    THEN (CHOOSE u \in users : u.id = userId).companyId
    ELSE 0

RolesHeld(userId) ==
    { r \in roles : \E ur \in userRoles : ur.userId = userId /\ ur.roleId = r.id }

Grants(userId, flag) ==
    \E r \in RolesHeld(userId) : flag \in r.permissions \/ "all" \in r.permissions

FlagOf(ep) ==
    CASE ep = "createObject" -> "create"
      [] ep = "updateObject" -> "update"
      [] ep = "deleteObject" -> "delete"
      [] OTHER               -> "none"

\* ------------------------------------------------------------ object lists
\* GET /api/objects is a function of the objects table, the caller and the
\* parameters.  It is explored over the tables that hold some of three
\* objects, created by alice, carol and alice in this order, for every
\* caller and every set of parameters.
ListedObjects ==
    { [id |-> 1, name |-> <<"a", "b">>, type |-> TypeLead,
       description |-> Null, createdBy |-> 1, companyId |-> 1],
      [id |-> 2, name |-> <<"B">>, type |-> TypeBot,
       description |-> Some(<<"b", "a">>), createdBy |-> 3, companyId |-> 2],
      [id |-> 3, name |-> <<"B">>, type |-> TypeLead,
       description |-> Null, createdBy |-> 1, companyId |-> 1] }

InitList ==
    \E created \in SUBSET ListedObjects :
        /\ companies = { [id |-> 1, name |-> "Acme"], [id |-> 2, name |-> "Beta"] }
        /\ roles = RoleRows
        /\ users = { [id |-> 1, username |-> "alice",
                      password |-> hash("pw1", "salt1"), companyId |-> 1],
                     [id |-> 2, username |-> "bob",
                      password |-> hash("pw1", "salt1"), companyId |-> 1],
                     [id |-> 3, username |-> "carol",
                      password |-> hash("pw1", "salt1"), companyId |-> 2] }
        /\ userRoles = { [userId |-> 1, roleId |-> 1],
                         [userId |-> 3, roleId |-> 3] }
        /\ objects = created
        /\ nextObjectId = 4
        /\ session = [s \in Sessions |-> 0]
        /\ resp = [ep |-> "none", handler |-> "none", sess |-> "s1",
                   user |-> 0, status |-> 0, id |-> 0, rows |-> {}]
        /\ reg = [s \in Sessions |-> Idle]

NextList ==
    \/ \E username \in Usernames : Login("s1", username, "pw1")
    \/ \E q \in SortedListQueries :
            ListObjects("s1", q.search, q.type, q.fields, q.sortBy, q.sortOrder)

SpecList == InitList /\ [][NextList]_vars

\* --------------------------------------------------- concurrent writes
\* Two clients, each logged in as alice (Acme, admin) or as carol (Beta,
\* a role granting all), write concurrently to a table that holds some of
\* two objects, one of each company.
WrittenObjects ==
    { [id |-> 1, name |-> <<"a", "b">>, type |-> TypeLead,
       description |-> Null, createdBy |-> 1, companyId |-> 1],
      [id |-> 2, name |-> <<"B">>, type |-> TypeBot,
       description |-> Null, createdBy |-> 3, companyId |-> 2] }

InitWrites ==
    \E created \in SUBSET WrittenObjects, callers \in [Sessions -> {1, 3}] :
        /\ companies = { [id |-> 1, name |-> "Acme"], [id |-> 2, name |-> "Beta"] }
        /\ roles = RoleRows
        /\ users = { [id |-> 1, username |-> "alice",
                      password |-> hash("pw1", "salt1"), companyId |-> 1],
                     [id |-> 2, username |-> "bob",
                      password |-> hash("pw1", "salt1"), companyId |-> 1],
                     [id |-> 3, username |-> "carol",
                      password |-> hash("pw1", "salt1"), companyId |-> 2] }
        /\ userRoles = { [userId |-> 1, roleId |-> 1],
                         [userId |-> 3, roleId |-> 3] }
        /\ objects = created
        /\ nextObjectId = 3
        /\ session = callers
        /\ resp = [ep |-> "none", handler |-> "none", sess |-> "s1",
                   user |-> 0, status |-> 0, id |-> 0, rows |-> {}]
        /\ reg = [s \in Sessions |-> Idle]

NextWrites ==
    \/ \E s \in Sessions, id \in 1..2, body \in UpdateBodies :
            updateObjectCheck(s, id, body)
    \/ \E s \in Sessions : updateObjectWrite(s)
    \/ \E s \in Sessions, id \in 1..2 : deleteObjectCheck(s, id)
    \/ \E s \in Sessions : deleteObjectWrite(s)

SpecWrites == InitWrites /\ [][NextWrites]_vars

\* ------------------------------------------------------------ role rows
\* Registration on roles tables that an earlier deployment has filled: the
\* rows "admin" and "user" are absent, or present with the permissions
\* ensureRoleExists is called with, or present with other permissions.
\* alice is the user of Acme and holds the row "admin" when there is one.
SeededRoles ==
    { {},
      { [id |-> 1, name |-> "admin", permissions |-> {"read"}] },
      { [id |-> 1, name |-> "user", permissions |-> {"read", "create"}] },
      { [id |-> 1, name |-> "admin", permissions |-> AdminPermissions],
        [id |-> 2, name |-> "user", permissions |-> {"read"}] },
      { [id |-> 1, name |-> "admin", permissions |-> {"read"}],
        [id |-> 2, name |-> "user", permissions |-> UserPermissions] } }

InitRoles ==
    \E seeded \in SeededRoles :
        /\ companies = { [id |-> 1, name |-> "Acme"] }
        /\ roles = seeded
        /\ users = { [id |-> 1, username |-> "alice",
                      password |-> hash("pw1", "salt1"), companyId |-> 1] }
        /\ userRoles = { [userId |-> 1, roleId |-> r.id] :
                           r \in { x \in seeded : x.name = "admin" } }
        /\ objects = {}
        /\ nextObjectId = 1
        /\ session = [s \in Sessions |-> 0]
        /\ resp = [ep |-> "none", handler |-> "none", sess |-> "s1",
                   user |-> 0, status |-> 0, id |-> 0, rows |-> {}]
        /\ reg = [s \in Sessions |-> Idle]

NextRoles ==
    \/ \E username \in Usernames, password \in NewPasswords, salt \in Salts,
          companyName \in CompanyNames :
            Register("s1", username, password, salt, companyName)
    \/ \E username \in Usernames, password \in Passwords :
            Login("s1", username, password)
    \/ GetRoles("s1")
    \/ \E userId \in 1..NextId(users), roleId \in 1..NextId(roles) :
            AssignRole("s1", userId, roleId)

SpecRoles == InitRoles /\ [][NextRoles]_vars

\* --------------------------------------------------- registration endpoints
\* Registrations on a database that holds no row yet, statement by
\* statement, for two clients, with the requests an idle client sends to
\* log in and to assign roles.
InitRegister ==
    /\ companies = {}
    /\ roles = {}
    /\ users = {}
    /\ userRoles = {}
    /\ objects = {}
    /\ nextObjectId = 1
    /\ session = [s \in Sessions |-> 0]
    /\ resp = [ep |-> "none", handler |-> "none", sess |-> "s1", user |-> 0,
               status |-> 0, id |-> 0, rows |-> {}]
    /\ reg = [s \in Sessions |-> Idle]

NextRegister ==
    \/ \E s \in Sessions, username \in Registrants, password \in NewPasswords,
          salt \in Salts, companyName \in NewCompanyNames :
            registerSelectExisting(s, username, password, salt, companyName)
    \/ \E s \in Sessions : registerInsertCompany(s)
    \/ \E s \in Sessions : ensureRoleSelect(s)
    \/ \E s \in Sessions : ensureRoleInsert(s)
    \/ \E s \in Sessions : registerInsertUser(s)
    \/ \E s \in Sessions : registerSelectCompanyUsers(s)
    \/ \E s \in Sessions : registerInsertUserRoles(s)
    \/ \E s \in Sessions : registerLogin(s)
    \/ Crash
    \/ \E s \in Sessions, username \in Registrants, password \in NewPasswords :
            reg[s].pc = "idle" /\ Login(s, username, password)
    \/ \E s \in Sessions, userId \in 1..NextId(users),
          roleId \in { r.id : r \in roles } :
            reg[s].pc = "idle" /\ AssignRole(s, userId, roleId)

SpecRegister == InitRegister /\ [][NextRegister]_vars

\* ------------------------------------------------------ a new deployment
\* One client on a database that holds no row yet: registrations that run
\* to their end, logins, role assignments and the writes of objects.
NextFresh ==
    \/ \E username \in Registrants, password \in NewPasswords, salt \in Salts,
          companyName \in NewCompanyNames :
            Register("s1", username, password, salt, companyName)
    \/ \E username \in Registrants, password \in NewPasswords :
            Login("s1", username, password)
    \/ Logout("s1")
    \/ \E userId \in 1..NextId(users), roleId \in { r.id : r \in roles } :
            AssignRole("s1", userId, roleId)
    \/ \E body \in { b \in CreateBodies : b.companyId = 0 } :
            CreateObject("s1", body)
    \/ \E id \in 1..nextObjectId, body \in UpdateBodies :
            UpdateObject("s1", id, body)
    \/ \E id \in 1..nextObjectId : DeleteObject("s1", id)

SpecFresh == InitRegister /\ [][NextFresh]_vars

\* C1 (as stated): PUT and DELETE on an object of another company answer 404
\* whatever roles the authenticated caller holds, and leave the object as it is.
C1_Original ==
    [][ \A o \in objects :
          ( /\ resp'.ep \in {"updateObject", "deleteObject"}
            /\ resp'.id = o.id
            /\ resp'.user # 0
            /\ CompanyOfUser(resp'.user) # o.companyId )
          => (resp'.status = 404 /\ o \in objects') ]_vars

\* C1 (amended): PUT and DELETE on an object of another company answer 404
\* when the caller's roles grant the operation's flag (or all) and 403 when
\* they do not; the object is left as it is in both cases.
C1_CrossCompanyNotFound ==
    [][ \A o \in objects :
          ( /\ resp'.ep \in {"updateObject", "deleteObject"}
            /\ resp'.id = o.id
            /\ resp'.user # 0
            /\ CompanyOfUser(resp'.user) # o.companyId )
          => /\ resp'.status = IF Grants(resp'.user, FlagOf(resp'.ep))
                               THEN 404 ELSE 403
             /\ o \in objects' ]_vars

\* a permitted caller has been answered 404 on a PUT of another company's object
C1_Witness ==
    /\ resp.ep = "updateObject"
    /\ resp.status = 404
    /\ resp.user # 0
    /\ Grants(resp.user, "update")
    /\ \E o \in objects : o.id = resp.id /\ o.companyId # CompanyOfUser(resp.user)

\* C2: the companyId of an existing object never changes, whatever the
\* request bodies.
C2_CompanyIdImmutable ==
    [][ \A o \in objects : \A p \in objects' :
          p.id = o.id => p.companyId = o.companyId ]_vars

\* C3: a successful POST /api/objects stores exactly one new row, whose
\* companyId and createdBy are the caller's, whatever the body carries.
C3_CreateAssignsCaller ==
    [][ (resp'.ep = "createObject" /\ resp'.status = 200)
        => \E o \in objects' :
             /\ o.id = resp'.id
             /\ o \notin objects
             /\ objects' = objects \cup {o}
             /\ o.companyId = CompanyOfUser(resp'.user)
             /\ o.createdBy = resp'.user
             /\ resp'.user # 0 ]_vars

\* carol (user 3, company 2) has stored the object of the bodies that carry
\* createdBy 2 and a companyId of their own
C3_Witness ==
    /\ resp.ep = "createObject"
    /\ resp.status = 200
    /\ resp.user = 3
    /\ \E o \in objects : /\ o.id = resp.id
                           /\ o.type = TypeBot
                           /\ o.createdBy = 3
                           /\ o.companyId = 2

\* C4: GET /api/objects returns only rows of the caller's company, whatever
\* the search, type and fields parameters.
C4_ListOnlyOwnCompany ==
    resp.ep = "listObjects" =>
        \A o \in resp.rows : o.companyId = CompanyOfUser(resp.user)

\* C5: the first user registered under a company is given the role "admin",
\* every later user registered under that company the role "user".
C5_FirstAdminThenUser ==
    [][ (resp'.ep = "register" /\ resp'.status = 200)
        => LET newUser   == CHOOSE u \in users' : u.id = resp'.id
               company   == CHOOSE c \in companies' : c.id = newUser.companyId
               firstUser == ~\E c \in companies : c.name = company.name
               held      == { r.name : r \in
                                { x \in roles' :
                                    [userId |-> newUser.id, roleId |-> x.id]
                                        \in userRoles' } }
           IN  held = IF firstUser THEN {"admin"} ELSE {"user"} ]_vars

\* C6: on POST, PUT and DELETE of /api/objects an authenticated caller is
\* refused (403) exactly when none of the caller's roles grants the
\* operation's flag or all.
C6_GuardIsOrOverRoles ==
    (resp.ep \in {"createObject", "updateObject", "deleteObject"} /\ resp.user # 0)
        => (resp.status # 403 <=> Grants(resp.user, FlagOf(resp.ep)))

\* a caller holding several roles, one of which grants nothing for the
\* operation, has passed the guard of PUT
C6_Witness ==
    /\ resp.ep = "updateObject"
    /\ resp.status # 403
    /\ resp.user # 0
    /\ Cardinality(RolesHeld(resp.user)) > 1
    /\ \E r \in RolesHeld(resp.user) :
           "update" \notin r.permissions /\ "all" \notin r.permissions

\* C7: POST, PUT and DELETE of /api/objects answer 401 without a session,
\* else 403 when the caller's roles lack the flag, else (PUT, DELETE) 404
\* when the caller's company has no object of that id; a request answered
\* 401, 403 or 404 leaves the objects table as it is.
C7_CheckOrder ==
    [][ resp'.ep \in {"createObject", "updateObject", "deleteObject"}
        => /\ resp'.user = 0 => resp'.status = 401
           /\ (resp'.user # 0 /\ ~Grants(resp'.user, FlagOf(resp'.ep)))
                 => resp'.status = 403
           /\ ( /\ resp'.user # 0
                /\ Grants(resp'.user, FlagOf(resp'.ep))
                /\ resp'.ep # "createObject"
                /\ ~\E o \in objects : /\ o.id = resp'.id
                                        /\ o.companyId = CompanyOfUser(resp'.user) )
                 => resp'.status = 404
           /\ resp'.status \in {401, 403, 404}
                 => (objects' = objects /\ nextObjectId' = nextObjectId) ]_vars

\* a caller without the delete flag has been refused the DELETE of an
\* object of the caller's own company
C7_Witness ==
    /\ resp.ep = "deleteObject"
    /\ resp.status = 403
    /\ resp.user # 0
    /\ \E o \in objects : o.id = resp.id /\ o.companyId = CompanyOfUser(resp.user)

\* C8: a request without an authenticated session to an endpoint other than
\* login and register is answered 401 by the middleware, ahead of the
\* endpoint's handler.
C8_UnauthenticatedRejected ==
    (resp.user = 0 /\ resp.ep \notin {"none", "login", "register"})
        => (resp.status = 401 /\ resp.handler = "authMiddleware")

AdminEndpoints == {"getRoles", "getUsers", "assignRole"}

\* C9: GET /api/roles, GET /api/users and POST /api/users/:userId/roles
\* answer an authenticated caller 403 unless the caller holds a role named
\* "admin"; a role granting all does not stand in for it.
C9_AdminByName ==
    [][ (resp'.ep \in AdminEndpoints /\ resp'.user # 0)
        => /\ resp'.status = 200
                 => \E r \in RolesHeld(resp'.user) : r.name = "admin"
           /\ (~\E r \in RolesHeld(resp'.user) : r.name = "admin")
                 => resp'.status = 403 ]_vars

\* a caller whose role grants all and is not named admin has been refused
C9_Witness ==
    /\ resp.ep \in AdminEndpoints
    /\ resp.status = 403
    /\ resp.user # 0
    /\ \E r \in RolesHeld(resp.user) : "all" \in r.permissions
    /\ ~\E r \in RolesHeld(resp.user) : r.name = "admin"

\* C10: POST /api/users/:userId/roles adds a user_roles row only for a target
\* of the caller's company; for a missing target or one of another company
\* it answers 403 and leaves user_roles as it is; no other endpoint adds a
\* row for an existing user.
C10_AssignWithinCompany ==
    [][ /\ \A ur \in userRoles' \ userRoles :
             \/ /\ resp'.ep = "assignRole"
                /\ resp'.user # 0
                /\ ur.userId = resp'.id
                /\ CompanyOfUser(ur.userId) = CompanyOfUser(resp'.user)
             \/ /\ resp'.ep = "register"
                /\ ur.userId = resp'.id
                /\ ~\E u \in users : u.id = ur.userId
        /\ \A ur \in userRoles : ur \in userRoles'
        /\ ( /\ resp'.ep = "assignRole"
             /\ \/ ~\E u \in users : u.id = resp'.id
                \/ CompanyOfUser(resp'.id) # CompanyOfUser(resp'.user) )
            => (resp'.status = 403 /\ userRoles' = userRoles) ]_vars

\* an admin has been refused the assignment to a user of another company
C10_Witness ==
    /\ resp.ep = "assignRole"
    /\ resp.status = 403
    /\ \E r \in RolesHeld(resp.user) : r.name = "admin"
    /\ \E u \in users : u.id = resp.id /\ u.companyId # CompanyOfUser(resp.user)

\* C11: GET /api/users answers an admin with exactly the users of the
\* admin's company, each with all the roles it holds, and with no user of
\* another company.
C11_UsersOfOwnCompany ==
    (resp.ep = "getUsers" /\ resp.status = 200)
        => /\ { row.id : row \in resp.rows }
                = { u.id : u \in { x \in users :
                                     x.companyId = CompanyOfUser(resp.user) } }
           /\ \A row \in resp.rows :
                 /\ row.companyId = CompanyOfUser(resp.user)
                 /\ row.roles = RolesHeld(row.id)
                 /\ \E u \in users : u.id = row.id /\ u.username = row.username

\* an admin has been given the two users of the company, one of them
\* holding a role, while a user of another company exists
C11_Witness ==
    /\ resp.ep = "getUsers"
    /\ resp.status = 200
    /\ Cardinality(resp.rows) = 2
    /\ \E row \in resp.rows : row.id # resp.user /\ row.roles # {}
    /\ \E u \in users : u.companyId # CompanyOfUser(resp.user)

UserEndpoints == {"register", "login", "getUser", "getUsers"}

\* C12: no response of register, login, GET /api/user or GET /api/users
\* carries the password of a user.
C12_NoPassword ==
    resp.ep \in UserEndpoints
        => \A row \in resp.rows : "password" \notin DOMAIN row

\* the stored password of a user verifies the password sent
Verifies(username, password) ==
    \E u \in users : /\ u.username = username
                     /\ u.password = hash(password, u.password[2])

InvalidLogin == {[message |-> "Invalid username or password"]}

\* C13 as stated: a login with an unknown username or a password that does
\* not verify is answered 401 with one and the same body, and the session of
\* the caller is unauthenticated afterwards.
C13_Original ==
    [][ (resp'.ep = "login" /\ resp'.handler = "login"
         /\ ~Verifies(resp'.username, resp'.password))
            => /\ resp'.status = 401
               /\ resp'.rows = InvalidLogin
               /\ session'[resp'.sess] = 0 ]_vars

\* C13: a login with an unknown username or a password that does not verify
\* is answered 401 with one and the same body and leaves every session as it
\* was; a session that was unauthenticated is unauthenticated afterwards.
C13_FailedLoginKeepsSession ==
    [][ (resp'.ep = "login" /\ resp'.handler = "login"
         /\ ~Verifies(resp'.username, resp'.password))
            => /\ resp'.status = 401
               /\ resp'.rows = InvalidLogin
               /\ resp'.id = 0
               /\ session' = session
               /\ tables' = tables ]_vars

\* a known username with a password that does not verify has been refused
\* on a session that is unauthenticated
C13_Witness ==
    /\ resp.ep = "login"
    /\ resp.status = 401
    /\ session[resp.sess] = 0
    /\ \E u \in users : u.username = resp.username
    /\ ~Verifies(resp.username, resp.password)

ProtectedEndpoints == {"getUser", "getRoles", "getUsers", "assignRole"}

\* C14: a session becomes authenticated only by a login or a registration
\* that succeeds, it is unauthenticated after a logout, and every request to
\* a protected endpoint on a session that is unauthenticated is answered 401.
C14_SessionLifecycle ==
    [][ /\ \A s \in Sessions :
            (session'[s] # session[s] /\ session'[s] # 0)
                => /\ resp'.sess = s
                   /\ resp'.ep \in {"login", "register"}
                   /\ resp'.status = 200
        /\ resp'.ep = "logout" => session'[resp'.sess] = 0
        /\ (session[resp'.sess] = 0 /\ resp'.ep \in ProtectedEndpoints)
                => resp'.status = 401 ]_vars

\* at most one row of the roles table per name
OneRowPerName(rs) == \A r1, r2 \in rs : r1.name = r2.name => r1 = r2

\* C15: ensureRoleExists is a get-or-create by name: a row of the roles
\* table is never changed or removed, the row a call returns is a row of the
\* name it was called with, and the table holds at most one row per name, so
\* that two calls with one name return the same row.
C15_GetOrCreate ==
    [][ /\ roles \subseteq roles'
        /\ OneRowPerName(roles')
        /\ \A s \in Sessions :
              /\ reg'[s].adminRole # 0
                    => \E r \in roles' : r.id = reg'[s].adminRole
                                          /\ r.name = "admin"
              /\ reg'[s].userRole # 0
                    => \E r \in roles' : r.id = reg'[s].userRole
                                          /\ r.name = "user" ]_vars

\* two registrations have completed, the table holds the two rows the first
\* one created, and both users were given the same row
C15_Witness ==
    /\ Cardinality(roles) = 2
    /\ \E ur1, ur2 \in userRoles : /\ ur1.userId # ur2.userId
                                    /\ ur1.roleId = ur2.roleId
    /\ \A s \in Sessions : reg[s].pc = "idle"

\* C16: when two registrations run concurrently on a roles table without
\* the rows "admin" and "user", every interleaving of the selects and
\* inserts of ensureRoleExists lets both registrations go on, and the role
\* each of them is given is the single row of that name.
C16_RaceReconciled ==
    [][ \A s \in Sessions :
          (reg[s].pc \in RoleInserts /\ reg'[s] # reg[s]
           /\ resp'.ep # "crash")
              => /\ reg'[s].pc \in {"selectUserRole", "insertUser"}
                 /\ OneRowPerName(roles')
                 /\ \E r \in roles' :
                       /\ r.name = RoleName(reg[s].pc)
                       /\ r.id \in {reg'[s].adminRole, reg'[s].userRole} ]_vars

\* a company without a user that no registration in flight has created
OrphanCompany(c) ==
    /\ ~\E u \in users : u.companyId = c
    /\ ~\E s \in Sessions : reg[s].pc # "idle" /\ reg[s].company = c

\* a user without a role that no registration in flight has created
RolelessUser(u) ==
    /\ ~\E ur \in userRoles : ur.userId = u
    /\ ~\E s \in Sessions : reg[s].pc # "idle" /\ reg[s].newUser = u

\* C18: a company that a stopped registration left without a user stays
\* without a user, and a user that a stopped registration left without a
\* role stays without a role: no later step of any request repairs them.
C18_NoRepair ==
    [][ /\ \A c \in companies : OrphanCompany(c.id) => OrphanCompany(c.id)'
        /\ \A u \in users : RolelessUser(u.id) => RolelessUser(u.id)' ]_vars

\* the server has stopped between the steps of two registrations: one left
\* a company without a user, the other a user without a role, and a
\* registration that came later has completed
C18_Witness ==
    /\ \E c \in companies : OrphanCompany(c.id)
    /\ \E u \in users : RolelessUser(u.id)
    /\ \E u \in users, ur \in userRoles :
          /\ ur.userId = u.id
          /\ \A c \in companies : OrphanCompany(c.id) => c.id < u.companyId
    /\ \A s \in Sessions : reg[s].pc = "idle"

\* C17: the answer to a PUT or DELETE of an authenticated caller on an id
\* that names no object of the caller's company is fixed by the request and
\* the caller alone: it is the same, status and body, whether the id names
\* no object at all or an object of another company.
C17_SameAnswer ==
    [][ ( /\ resp'.ep \in {"updateObject", "deleteObject"}
          /\ resp'.user # 0
          /\ ~\E o \in objects : /\ o.id = resp'.id
                                  /\ o.companyId = CompanyOfUser(resp'.user) )
        => /\ resp' = [ep |-> resp'.ep, handler |-> resp'.ep,
                       sess |-> resp'.sess, user |-> resp'.user,
                       status |-> IF Grants(resp'.user, FlagOf(resp'.ep))
                                  THEN 404 ELSE 403,
                       id |-> resp'.id, rows |-> {}]
           /\ tables' = tables ]_vars

\* a permitted caller has been answered 404 on a DELETE of an id that names
\* an object of another company, as it is on an id that names no object
C17_Witness ==
    /\ resp.ep = "deleteObject"
    /\ resp.status = 404
    /\ resp.rows = {}
    /\ Grants(resp.user, "delete")
    /\ \E o \in objects : o.id = resp.id /\ o.companyId # CompanyOfUser(resp.user)
    /\ \E id \in 1..nextObjectId : \A o \in objects : o.id # id

InOrder(column, func) ==
    \A i, j \in 1..Len(resp.order) :
        i < j => \A o1, o2 \in resp.rows :
                    (o1.id = resp.order[i] /\ o2.id = resp.order[j])
                        => IF func = "asc"
                           THEN ~ColumnLess(column, o2, o1)
                           ELSE ~ColumnLess(column, o1, o2)

\* C20: GET /api/objects with a search parameter answers with the objects of
\* the caller's company whose name, type or description contains the term,
\* of the given type only when a type other than _all is given, in the
\* order of the requested column (name, type or createdAt) and direction,
\* and by createdAt, latest first, when no column is requested.
C20_SearchTypeOrder ==
    ( /\ resp.ep = "listObjects"
      /\ resp.handler = "listObjects"
      /\ ~IsNull(resp.query.search)
      /\ ~resp.query.fields )
    => /\ resp.status = 200
       /\ resp.rows =
            { o \in objects :
                /\ o.companyId = CompanyOfUser(resp.user)
                /\ \/ ilike(o.name, resp.query.search[1])
                   \/ ilike(o.type, resp.query.search[1])
                   \/ /\ ~IsNull(o.description)
                      /\ ilike(o.description[1], resp.query.search[1])
                /\ (~IsNull(resp.query.type) /\ resp.query.type[1] # TypeAll)
                      => o.type = resp.query.type[1] }
       /\ { resp.order[i] : i \in 1..Len(resp.order) }
            = { o.id : o \in resp.rows }
       /\ Len(resp.order) = Cardinality(resp.rows)
       /\ IF resp.query.sortBy \in {Some("name"), Some("type"), Some("createdAt")}
          THEN InOrder(resp.query.sortBy[1],
                       IF resp.query.sortOrder = Some("desc")
                       THEN "desc" ELSE "asc")
          ELSE IsNull(resp.query.sortBy) => InOrder("createdAt", "desc")

\* C21: GET /api/objects and GET /api/object-types need a session and no
\* role: an authenticated caller is never answered 401 or 403, whatever
\* roles the caller holds, and is answered 200 whenever the database runs
\* the statement (it rejects the statement of a fields filter, for every
\* caller alike).
C21_ReadNeedsOnlySession ==
    (resp.ep \in {"listObjects", "objectTypes"} /\ resp.user # 0)
        => /\ resp.status \notin {401, 403}
           /\ resp.status # 200
                 => (resp.ep = "listObjects" /\ resp.query.fields
                     /\ resp.status = 500)

\* a caller who holds no role has been given the list of objects
C21_Witness ==
    /\ resp.ep = "listObjects"
    /\ resp.status = 200
    /\ resp.user # 0
    /\ RolesHeld(resp.user) = {}
    /\ ~Grants(resp.user, "read")

\* C22: the permissions of a role never change once its row exists: every
\* step keeps every row of the roles table as it is, and a registration,
\* which calls ensureRoleExists with the permissions of "admin" and "user",
\* gives the new user the row of that name as it was stored before.
C22_PermissionsFixed ==
    [][ /\ \A r \in roles : r \in roles'
        /\ (resp'.ep = "register" /\ resp'.status = 200)
              => \A row \in resp'.rows : \A role \in row.roles :
                    (\E r \in roles : r.name = role.name) => role \in roles ]_vars

\* a registration found the row "admin" stored with other permissions than
\* it asked for, and the new user holds that row as it was
C22_Witness ==
    /\ resp.ep = "register"
    /\ resp.status = 200
    /\ \E row \in resp.rows : \E role \in row.roles :
          /\ role.name = "admin"
          /\ role.permissions # AdminPermissions
          /\ role \in roles

\* C23: user_roles holds a pair (userId, roleId) at most once: the
\* assignment of a role the target already holds, by an admin of the
\* target's company, is answered 500 and leaves user_roles as it is, and
\* an assignment that is answered 200 adds one row.
C23_PairOnce ==
    [][ resp'.ep = "assignRole"
        => /\ ( /\ [userId |-> resp'.id, roleId |-> resp'.roleId] \in userRoles
                /\ \E r \in RolesHeld(resp'.user) : r.name = "admin"
                /\ CompanyOfUser(resp'.id) = CompanyOfUser(resp'.user) )
              => (resp'.status = 500 /\ userRoles' = userRoles)
           /\ resp'.status = 200
              => Cardinality(userRoles') = Cardinality(userRoles) + 1 ]_vars

\* an admin has assigned a role to a user of the company a second time and
\* has been answered 500
C23_Witness ==
    /\ resp.ep = "assignRole"
    /\ resp.status = 500
    /\ resp.id # resp.user
    /\ [userId |-> resp.id, roleId |-> resp.roleId] \in userRoles
    /\ \E r \in RolesHeld(resp.user) : r.name = "admin"

\* C24: a registration that has passed the username check inserts a
\* companies row with an id no row had, also under the name of an existing
\* company, and its user is put into that row: a users row is only added
\* to a company without users, and when the users of the new company are
\* counted to choose the role there is one.
C24_NewCompanyPerRegistration ==
    [][ \A s \in Sessions :
          /\ (reg[s].pc = "insertCompany" /\ reg'[s].pc = "selectAdminRole")
                => /\ ~\E c \in companies : c.id = reg'[s].company
                   /\ companies' = companies \cup
                         {[id |-> reg'[s].company, name |-> reg[s].companyName]}
          /\ (reg[s].pc = "insertUser" /\ reg'[s].pc = "selectCompanyUsers")
                => /\ ~\E u \in users : u.companyId = reg[s].company
                   /\ \A u \in users' \ users : u.companyId = reg[s].company
          /\ (reg[s].pc = "selectCompanyUsers" /\ reg'[s].pc = "insertUserRoles")
                => /\ Cardinality({ u \in users :
                                      u.companyId = reg[s].company }) = 1
                   /\ reg'[s].roleToAssign = reg[s].adminRole ]_vars

\* two registrations under one company name have completed: there are two
\* companies of that name, each with its own user
C24_Witness ==
    /\ resp.ep = "register"
    /\ resp.status = 200
    /\ \E c1, c2 \in companies :
          /\ c1.id # c2.id
          /\ c1.name = c2.name
          /\ \E u \in users : u.companyId = c1.id /\ u.id # resp.id
          /\ \E u \in users : u.companyId = c2.id /\ u.id = resp.id

\* C25: the guard of a request decides on the roles user_roles holds for
\* the caller when the request is made: GET /api/roles and GET /api/users
\* are answered 200 exactly to a caller who holds "admin" at that time,
\* and the first such request of a user on a session that was there before
\* the user was assigned "admin" is answered 200 without a new login.
C25_RolesReadPerRequest ==
    [][ /\ resp'.ep \in {"getRoles", "getUsers"}
              => (resp'.status = 200
                    <=> \E r \in RolesHeld(session[resp'.sess]) : r.name = "admin")
        /\ ( /\ resp.ep = "assignRole"
             /\ resp.status = 200
             /\ \E r \in roles : r.id = resp.roleId /\ r.name = "admin"
             /\ resp'.ep \in {"getRoles", "getUsers"}
             /\ session[resp'.sess] = resp.id
             /\ session' = session )
            => resp'.status = 200 ]_vars

\* a user without the role "admin" is logged in on one session while an
\* admin on the other session has just assigned "admin" to that user
C25_Witness ==
    /\ resp.ep = "assignRole"
    /\ resp.status = 200
    /\ \E r \in roles : r.id = resp.roleId /\ r.name = "admin"
    /\ \E s \in Sessions : s # resp.sess /\ session[s] = resp.id
    /\ resp.id # resp.user

C27_DuplicateUsername ==
    [][ /\ (reg' = reg /\ resp'.ep = "register" /\ resp'.status = 400)
              => (tables' = tables /\ session'[resp'.sess] = 0)
        /\ \A u1, u2 \in users' : u1.username = u2.username => u1 = u2
        /\ \A s \in Sessions :
              (reg[s].pc = "insertUser" /\ reg'[s].pc = "idle"
               /\ resp'.ep # "crash")
                  => ~\E c \in companies' : c.id = reg[s].company ]_vars

\* C28: under every interleaving, the write of a PUT or DELETE changes or
\* removes only objects whose companyId is that of the caller when the
\* write runs, and a PUT whose object was deleted between its check and
\* its write is not answered 200.
C28_WriteWithinCompany ==
    [][ \A s \in Sessions :
          (reg[s].pc \in {"updateWrite", "deleteWrite"} /\ reg'[s].pc = "idle")
            => /\ \A o \in objects \ objects' :
                     o.companyId = CompanyOfUser(session[s])
               /\ ( /\ reg[s].pc = "updateWrite"
                    /\ ~\E o \in objects : o.id = reg[s].id )
                   => resp'.status # 200 ]_vars

====
